---------------------------- MODULE Spec2Model ----------------------------
(***************************************************************************)
(* Shared fixed buffer of the detached_arraybuffer Wasm modules.           *)
(*                                                                         *)
(* Two module instances are driven side by side by one host:               *)
(*   "no_growth"  src/src/lib_no_growth.rs  (in-place byte copy)           *)
(*   "growth"     src/src/lib_growth.rs     (intermediate String)          *)
(* src/src/lib.rs holds the same set_name / str_from_buffer / get_ptr as   *)
(* lib_growth.rs (only the placement of `unsafe` differs), so the "growth" *)
(* instance stands for both.                                               *)
(***************************************************************************)
EXTENDS Integers, Sequences, FiniteSets, TLC

VARIABLES
    BUFFER,      \* [variant -> [0..127 -> byte]]   static mut BUFFER
    base,        \* [variant -> address]            link-time address of BUFFER
    memGrows,    \* [variant -> Nat]                memory.grow events so far
    trap,        \* [variant -> "none"|"bounds"|"utf8"]  outcome of the last call
    ret,         \* [variant -> Int]                value the last call returned (0: it did not return)
    reads,       \* [variant -> SUBSET 0..127]      indices read by the last call
    writes,      \* [variant -> SUBSET 0..127]      indices written by the last call
    raw,         \* [variant -> BOOLEAN]            last call read a byte it had written
    pc,          \* host position in the protocol
    hostSal,     \* bytes the host last wrote at the salutation pointer
    hostName,    \* bytes the host last wrote at the name pointer
    args,        \* <<sal_len, name_len>> of the last set_name call
    cachedPtrs,  \* [variant -> <<sal, name, msg>> addresses cached by the host]
    fetched,     \* [variant -> <<sal, name, msg>> addresses re-fetched after the last call]
    viewGen,     \* [variant -> Nat]                memGrows when the host made its memory view
    hostFault,   \* [variant -> BOOLEAN]            host read through a detached view
    prev,        \* snapshot taken when the previous set_name call ended
    repeat,      \* the last call had the inputs and lengths of the call before it
    rounds       \* set_name calls made so far

vars == <<BUFFER, base, memGrows, trap, ret, reads, writes, raw, pc, hostSal,
          hostName, args, cachedPtrs, fetched, viewGen, hostFault, prev, repeat, rounds>>

Variants == {"no_growth", "growth"}

----------------------------------------------------------------------------
(* Program constants *)

MEMORY_BUFFER_SIZE == 128
SALUT_OFFSET == 0
NAME_OFFSET == 16
MSG_OFFSET == 32

SPACE == 32
BANG == 33
COMMA == 44

Indices == 0 .. (MEMORY_BUFFER_SIZE - 1)

\* static mut BUFFER: [u8; MEMORY_BUFFER_SIZE] = [0; MEMORY_BUFFER_SIZE]
ZeroBuffer == [i \in Indices |-> 0]

----------------------------------------------------------------------------
(* Byte strings *)

\* BUFFER[from .. from + len) as a sequence
Slice(b, from, len) == [k \in 1 .. len |-> b[from + k - 1]]

IsCont(x) == x >= 128 /\ x <= 191

\* core::str::from_utf8: TRUE iff s[i..] is well-formed UTF-8
RECURSIVE Utf8From(_, _)
Utf8From(s, i) ==
    IF i > Len(s) THEN TRUE
    ELSE LET b == s[i]
             has(k) == i + k <= Len(s)
             c(k) == s[i + k]
         IN  IF b < 128 THEN Utf8From(s, i + 1)
             ELSE IF b >= 194 /\ b <= 223
                  THEN has(1) /\ IsCont(c(1)) /\ Utf8From(s, i + 2)
             ELSE IF b = 224
                  THEN has(2) /\ c(1) >= 160 /\ c(1) <= 191 /\ IsCont(c(2))
                       /\ Utf8From(s, i + 3)
             ELSE IF (b >= 225 /\ b <= 236) \/ b = 238 \/ b = 239
                  THEN has(2) /\ IsCont(c(1)) /\ IsCont(c(2)) /\ Utf8From(s, i + 3)
             ELSE IF b = 237
                  THEN has(2) /\ c(1) >= 128 /\ c(1) <= 159 /\ IsCont(c(2))
                       /\ Utf8From(s, i + 3)
             ELSE IF b = 240
                  THEN has(3) /\ c(1) >= 144 /\ c(1) <= 191 /\ IsCont(c(2))
                       /\ IsCont(c(3)) /\ Utf8From(s, i + 4)
             ELSE IF b >= 241 /\ b <= 243
                  THEN has(3) /\ IsCont(c(1)) /\ IsCont(c(2)) /\ IsCont(c(3))
                       /\ Utf8From(s, i + 4)
             ELSE IF b = 244
                  THEN has(3) /\ c(1) >= 128 /\ c(1) <= 143 /\ IsCont(c(2))
                       /\ IsCont(c(3)) /\ Utf8From(s, i + 4)
             ELSE FALSE

from_utf8_ok(s) == Utf8From(s, 1)

----------------------------------------------------------------------------
(* One set_name call as a run over a machine state *)

Machine(b) == [buf |-> b, trap |-> "none", reads |-> {}, writes |-> {},
               raw |-> FALSE, ret |-> 0, grew |-> FALSE]

\* mutant: the store is not bounds-checked (get_unchecked_mut); a store past the
\* array is dropped here
write_byte_unchecked(m, i, x) ==
    IF m.trap # "none" THEN m
    ELSE IF i >= MEMORY_BUFFER_SIZE THEN m
    ELSE [m EXCEPT !.buf[i] = x, !.writes = @ \cup {i}]

\* BUFFER[i] = x : the array index is bounds-checked, a failed check panics
write_byte(m, i, x) ==
    IF m.trap # "none" THEN m
    ELSE IF i >= MEMORY_BUFFER_SIZE THEN [m EXCEPT !.trap = "bounds"]
    ELSE [m EXCEPT !.buf[i] = x, !.writes = @ \cup {i}]

\* &BUFFER[from..(from + len as usize)] with len an i32. The slice is bounds-checked:
\* it panics when it ends past the array. `len as usize` of a negative len is
\* 2^32 + len (usize has 32 bits on wasm32), at least 2^31: from + that either ends
\* past the array or overflows usize (a panic with overflow checks, an end wrapped
\* below `from` without them), so the slice panics in every build.
slice_ok(from, len) == len >= 0 /\ from + len <= MEMORY_BUFFER_SIZE

\* the for_each of copy_bytes. alias = "reload": each source byte is loaded when its
\* turn comes; alias = "snapshot": the source slice is loaded before the stores (the
\* slice is a shared borrow the stores may alias, so either is a legal outcome).
RECURSIVE copy_loop(_, _, _, _, _, _, _)
copy_loop(m, snap, to, from, idx, n, alias) ==
    IF idx >= n \/ m.trap # "none" THEN m
    ELSE LET src == from + idx
             byte == IF alias = "snapshot" THEN snap[src] ELSE m.buf[src]
             m1 == [m EXCEPT !.reads = @ \cup {src},
                             !.raw = @ \/ (src \in m.writes)]
         IN  copy_loop(write_byte(m1, to + idx, byte), snap, to, from, idx + 1, n, alias)

\* mutant: the source slice is inclusive, BUFFER[from..=(from + len)]
copy_bytes_inclusive(m, to, from, len, alias) ==
    IF m.trap # "none" THEN m
    ELSE IF ~slice_ok(from, len + 1) THEN [m EXCEPT !.trap = "bounds"]
    ELSE copy_loop(m, m.buf, to, from, 0, len + 1, alias)

\* mutant: source and destination are taken the other way round
copy_bytes_swapped(m, to, from, len, alias) ==
    IF m.trap # "none" THEN m
    ELSE IF ~slice_ok(to, len) THEN [m EXCEPT !.trap = "bounds"]
    ELSE copy_loop(m, m.buf, from, to, 0, len, alias)

copy_bytes(m, to, from, len, alias) ==
    IF m.trap # "none" THEN m
    ELSE IF ~slice_ok(from, len) THEN [m EXCEPT !.trap = "bounds"]
    ELSE copy_loop(m, m.buf, to, from, 0, len, alias)

----------------------------------------------------------------------------
(* lib_growth.rs (and lib.rs) *)

\* mutant: from_utf8_unchecked, no validation
str_from_buffer_unchecked(m, from, len) ==
    IF m.trap # "none" THEN m
    ELSE IF ~slice_ok(from, len) THEN [m EXCEPT !.trap = "bounds"]
    ELSE [m EXCEPT !.reads = @ \cup {from + k : k \in 0 .. (len - 1)}]

\* str_from_buffer: the checked slice, then from_utf8(..).unwrap()
str_from_buffer(m, from, len) ==
    IF m.trap # "none" THEN m
    ELSE IF ~slice_ok(from, len) THEN [m EXCEPT !.trap = "bounds"]
    ELSE LET m1 == [m EXCEPT !.reads = @ \cup {from + k : k \in 0 .. (len - 1)}]
         IN  IF from_utf8_ok(Slice(m.buf, from, len)) THEN m1
             ELSE [m1 EXCEPT !.trap = "utf8"]

\* mutant: the format string lacks the "!"
format_greeting_no_bang(m, sal, name, grow) ==
    [bytes |-> sal \o <<COMMA, SPACE>> \o name,
     m |-> [m EXCEPT !.grew = grow]]

\* format!("{}, {}!", sal, name): a String on the heap holding the bytes of sal,
\* ", ", the bytes of name and "!". Whether the allocation makes the allocator grow
\* the linear memory is the allocator's choice: `grow`.
format_greeting(m, sal, name, grow) ==
    [bytes |-> sal \o <<COMMA, SPACE>> \o name \o <<BANG>>,
     m |-> [m EXCEPT !.grew = grow]]

\* greeting.as_bytes().iter().enumerate().for_each(BUFFER[MSG_OFFSET + idx] = *byte)
RECURSIVE store_greeting(_, _, _)
store_greeting(m, bytes, idx) ==
    IF idx >= Len(bytes) \/ m.trap # "none" THEN m
    ELSE store_greeting(write_byte(m, MSG_OFFSET + idx, bytes[idx + 1]), bytes, idx + 1)

set_name_growth(b, sal_len, name_len, grow) ==
    LET m0 == Machine(b)
        m1 == str_from_buffer(m0, SALUT_OFFSET, sal_len)
        m2 == str_from_buffer(m1, NAME_OFFSET, name_len)
    IN  IF m2.trap # "none" THEN m2
        ELSE LET sal == Slice(b, SALUT_OFFSET, sal_len)
                 name == Slice(b, NAME_OFFSET, name_len)
                 g == format_greeting(m2, sal, name, grow)
                 m3 == store_greeting(g.m, g.bytes, 0)
             IN  IF m3.trap # "none" THEN m3 ELSE [m3 EXCEPT !.ret = Len(g.bytes)]

----------------------------------------------------------------------------
(* lib_no_growth.rs *)

\* mutant: idx is not advanced after the comma, the space lands on it
set_name_no_growth_no_space(b, sal_len, name_len, alias) ==
    LET m0 == Machine(b)
        m1 == copy_bytes(m0, MSG_OFFSET, SALUT_OFFSET, sal_len, alias)
        idx1 == MSG_OFFSET + sal_len
        m2 == write_byte(m1, idx1, COMMA)
        m3 == write_byte(m2, idx1, SPACE)
        idx3 == idx1 + 1
        m4 == copy_bytes(m3, idx3, NAME_OFFSET, name_len, alias)
        idx4 == idx3 + name_len
        m5 == write_byte(m4, idx4, BANG)
        idx5 == idx4 + 1
    IN  IF m5.trap # "none" THEN m5 ELSE [m5 EXCEPT !.ret = idx5 - MSG_OFFSET]

\* mutant: the name is copied from just past its destination, not from the name field
set_name_no_growth_self_source(b, sal_len, name_len, alias) ==
    LET m0 == Machine(b)
        m1 == copy_bytes(m0, MSG_OFFSET, SALUT_OFFSET, sal_len, alias)
        idx1 == MSG_OFFSET + sal_len
        m2 == write_byte(m1, idx1, COMMA)
        idx2 == idx1 + 1
        m3 == write_byte(m2, idx2, SPACE)
        idx3 == idx2 + 1
        m4 == copy_bytes(m3, idx3, idx3 + 1, name_len, alias)
        idx4 == idx3 + name_len
        m5 == write_byte(m4, idx4, BANG)
        idx5 == idx4 + 1
    IN  IF m5.trap # "none" THEN m5 ELSE [m5 EXCEPT !.ret = idx5 - MSG_OFFSET]

\* mutant: a NUL is written after the bang
set_name_no_growth_nul_terminated(b, sal_len, name_len, alias) ==
    LET m0 == Machine(b)
        m1 == copy_bytes(m0, MSG_OFFSET, SALUT_OFFSET, sal_len, alias)
        idx1 == MSG_OFFSET + sal_len
        m2 == write_byte(m1, idx1, COMMA)
        idx2 == idx1 + 1
        m3 == write_byte(m2, idx2, SPACE)
        idx3 == idx2 + 1
        m4 == copy_bytes(m3, idx3, NAME_OFFSET, name_len, alias)
        idx4 == idx3 + name_len
        m5 == write_byte(m4, idx4, BANG)
        idx5 == idx4 + 1
        m6 == write_byte(m5, idx5, 0)
    IN  IF m6.trap # "none" THEN m6 ELSE [m6 EXCEPT !.ret = idx5 - MSG_OFFSET]

\* mutant: the greeting is built in a String first, as lib_growth.rs does
set_name_no_growth_with_string(b, sal_len, name_len, alias) ==
    set_name_growth(b, sal_len, name_len, TRUE)

set_name_no_growth(b, sal_len, name_len, alias) ==
    LET m0 == Machine(b)
        \* Write salutation
        m1 == copy_bytes(m0, MSG_OFFSET, SALUT_OFFSET, sal_len, alias)
        idx1 == MSG_OFFSET + sal_len
        \* Write separator ", "
        m2 == write_byte(m1, idx1, COMMA)
        idx2 == idx1 + 1
        m3 == write_byte(m2, idx2, SPACE)
        idx3 == idx2 + 1
        \* Write name
        m4 == copy_bytes(m3, idx3, NAME_OFFSET, name_len, alias)
        idx4 == idx3 + name_len
        \* Write bang character
        m5 == write_byte(m4, idx4, BANG)
        idx5 == idx4 + 1
    IN  IF m5.trap # "none" THEN m5 ELSE [m5 EXCEPT !.ret = idx5 - MSG_OFFSET]

----------------------------------------------------------------------------
(* Pointers *)

\* mutant: the pointer is taken past the bytes of the last greeting
get_ptr_past_len(v, offset) == base[v] + offset + ret[v]

\* BUFFER.as_ptr().add(offset)
get_ptr(v, offset) == base[v] + offset
get_salutation_ptr(v) == get_ptr(v, SALUT_OFFSET)
get_name_ptr(v) == get_ptr(v, NAME_OFFSET)
get_msg_ptr(v) == get_ptr(v, MSG_OFFSET)

----------------------------------------------------------------------------
(* Host inputs *)

\* protocol rounds the host runs
MaxRounds == 3

Hello == <<72, 101, 108, 108, 111>>
World == <<87, 111, 114, 108, 100>>
Bob == <<66, 111, 98>>
\* "Zoë": the last character takes two bytes
Zoe == <<90, 111, 195, 171>>
\* "Salutations, all": 16 bytes, a full field
Sal16 == <<83, 97, 108, 117, 116, 97, 116, 105, 111, 110, 115, 44, 32, 97, 108, 108>>
\* "Zoë €😀 Bob": 16 bytes, a full field, with characters of 1, 2, 3 and 4 bytes
Name16 == <<90, 111, 195, 171, 32, 226, 130, 172, 240, 159, 152, 128, 32, 66, 111, 98>>

\* valid inputs: well-formed UTF-8 of at most 16 bytes
Salutations == {<<>>, Hello, Sal16}
Names == {<<>>, Bob, World, Name16}

\* any inputs: also a cut-off two-byte character and a byte no UTF-8 text holds
AnySalutations == {Hello, <<72, 195>>}
AnyNames == {Zoe, <<255>>}
\* any lengths: negative, inside a field, past a field (17), past both input fields
\* (40), past the message field's room (80 with 17) and past the buffer (129)
AnySalLens == {-1, 2, 17, 40, 129}
AnyNameLens == {0, 3, 17, 80}

----------------------------------------------------------------------------
(* The host and the two module instances *)

Halted == \E v \in Variants : trap[v] # "none" \/ hostFault[v]

\* the host stores `bytes` through its view, starting at a field's offset
HostStore(b, offset, bytes) ==
    [i \in Indices |-> IF i >= offset /\ i < offset + Len(bytes)
                       THEN bytes[i - offset + 1] ELSE b[i]]

Pointers(v) == <<get_salutation_ptr(v), get_name_ptr(v), get_msg_ptr(v)>>

Init ==
    /\ BUFFER = [v \in Variants |-> ZeroBuffer]
    /\ base = [v \in Variants |-> 1048576]   \* where the linker put BUFFER
    /\ memGrows = [v \in Variants |-> 0]
    /\ trap = [v \in Variants |-> "none"]
    /\ ret = [v \in Variants |-> 0]
    /\ reads = [v \in Variants |-> {}]
    /\ writes = [v \in Variants |-> {}]
    /\ raw = [v \in Variants |-> FALSE]
    /\ pc = "start"
    /\ hostSal = <<>>
    /\ hostName = <<>>
    /\ args = <<>>
    /\ cachedPtrs = [v \in Variants |-> <<>>]
    /\ fetched = [v \in Variants |-> <<>>]
    /\ viewGen = [v \in Variants |-> 0]
    /\ hostFault = [v \in Variants |-> FALSE]
    /\ prev = [args |-> <<>>, sal |-> <<>>, name |-> <<>>,
               ret |-> [v \in Variants |-> 0],
               buf |-> [v \in Variants |-> ZeroBuffer]]
    /\ repeat = FALSE
    /\ rounds = 0

\* the host instantiates the modules, fetches the three pointers of each and makes
\* its view of each memory
HostGetPtrs ==
    /\ pc = "start"
    /\ cachedPtrs' = [v \in Variants |-> Pointers(v)]
    /\ viewGen' = memGrows
    /\ pc' = "idle"
    /\ UNCHANGED <<BUFFER, base, memGrows, trap, ret, reads, writes, raw, hostSal,
                   hostName, args, fetched, hostFault, prev, repeat, rounds>>

\* protocol steps (1) and (2)
HostWriteFrom(S, N, max) ==
    /\ pc = "idle"
    /\ ~Halted
    /\ rounds < max
    /\ \E s \in S, n \in N :
          /\ BUFFER' = [v \in Variants |->
                          HostStore(HostStore(BUFFER[v], SALUT_OFFSET, s), NAME_OFFSET, n)]
          /\ hostSal' = s
          /\ hostName' = n
    /\ pc' = "written"
    /\ UNCHANGED <<base, memGrows, trap, ret, reads, writes, raw, args, cachedPtrs,
                   fetched, viewGen, hostFault, prev, repeat, rounds>>

\* protocol step (3): set_name(sal_len, name_len) on each instance
HostCall(sal_len, name_len) ==
    LET in_place == [alias \in {"reload", "snapshot"} |->
                       set_name_no_growth(BUFFER["no_growth"], sal_len, name_len, alias)]
        with_string == [grow \in BOOLEAN |->
                          set_name_growth(BUFFER["growth"], sal_len, name_len, grow)]
    IN
    /\ pc = "written"
    /\ \E alias \in {"reload", "snapshot"}, grow \in BOOLEAN :
          LET r == [v \in Variants |->
                      IF v = "no_growth" THEN in_place[alias] ELSE with_string[grow]]
          IN  /\ BUFFER' = [v \in Variants |-> r[v].buf]
              /\ trap' = [v \in Variants |-> r[v].trap]
              /\ ret' = [v \in Variants |-> r[v].ret]
              /\ reads' = [v \in Variants |-> r[v].reads]
              /\ writes' = [v \in Variants |-> r[v].writes]
              /\ raw' = [v \in Variants |-> r[v].raw]
              /\ memGrows' = [v \in Variants |->
                                IF r[v].grew THEN memGrows[v] + 1 ELSE memGrows[v]]
              /\ prev' = [args |-> <<sal_len, name_len>>, sal |-> hostSal,
                          name |-> hostName,
                          ret |-> [v \in Variants |-> r[v].ret],
                          buf |-> [v \in Variants |-> r[v].buf]]
    /\ args' = <<sal_len, name_len>>
    /\ repeat' = (prev.args = <<sal_len, name_len>> /\ prev.sal = hostSal
                  /\ prev.name = hostName)
    /\ rounds' = rounds + 1
    /\ pc' = "called"
    /\ UNCHANGED <<base, hostSal, hostName, cachedPtrs, fetched, viewGen, hostFault>>

\* protocol step (4): re-fetch the pointers and read the greeting through the view
\* made at the start; a view of a memory that has grown since is detached
HostRead ==
    /\ pc = "called"
    /\ ~Halted
    /\ fetched' = [v \in Variants |-> Pointers(v)]
    /\ hostFault' = [v \in Variants |-> viewGen[v] # memGrows[v]]
    /\ pc' = "idle"
    /\ UNCHANGED <<BUFFER, base, memGrows, trap, ret, reads, writes, raw, hostSal,
                   hostName, args, cachedPtrs, viewGen, prev, repeat, rounds>>

\* a host that keeps the protocol
HostWrite == HostWriteFrom(Salutations, Names, MaxRounds)
HostSetName == HostCall(Len(hostSal), Len(hostName))

Next == HostGetPtrs \/ HostWrite \/ HostSetName \/ HostRead

Spec == Init /\ [][Next]_vars

\* a host that writes any bytes and passes any lengths
HostWriteAny == HostWriteFrom(AnySalutations, AnyNames, MaxRounds - 1)
HostSetNameAny ==
    \E sal_len \in AnySalLens, name_len \in AnyNameLens : HostCall(sal_len, name_len)

NextAny == HostGetPtrs \/ HostWriteAny \/ HostSetNameAny \/ HostRead

SpecAny == Init /\ [][NextAny]_vars

----------------------------------------------------------------------------
(* Claims *)

\* the bytes of ", " and of "!"
Separator == <<44, 32>>
Exclaim == <<33>>
\* "Hello, World!"
HelloWorld == <<72, 101, 108, 108, 111, 44, 32, 87, 111, 114, 108, 100, 33>>
\* ", Bob!"
CommaBob == <<44, 32, 66, 111, 98, 33>>

Greeting(s, n) == s \o Separator \o n \o Exclaim
Message(v, len) == Slice(BUFFER[v], 32, len)
Returned(v) == pc = "called" /\ trap[v] = "none"

\* C1: when the host has written s at offset 0 and n at offset 16 (0 to 16 bytes
\* each) and called set_name(len(s), len(n)), in any round, the call returns
\* len(s) + len(n) + 3 and the bytes at [32, 32 + returned length) are s, ", ", n,
\* "!"; in both variants.
C1_Greeting ==
    pc = "called" =>
        \A v \in Variants :
            /\ trap[v] = "none"
            /\ ret[v] = Len(hostSal) + Len(hostName) + 3
            /\ Message(v, ret[v]) = Greeting(hostSal, hostName)

\* an empty salutation with the name "Bob", in a later round, gave ", Bob!"
C1_Witness ==
    /\ pc = "called"
    /\ rounds >= 2
    /\ hostSal = <<>>
    /\ hostName = Bob
    /\ \A v \in Variants : ret[v] = 6 /\ Message(v, 6) = CommaBob

\* C2: in the in-place variant the three pointers are base + 0, base + 16 and
\* base + 32 of one buffer in every reachable state, the values re-fetched after
\* any set_name call are the values fetched before the first one, and no call
\* grows the memory.
C2_PointerStability ==
    LET v == "no_growth"
        now == <<get_salutation_ptr(v), get_name_ptr(v), get_msg_ptr(v)>>
    IN  /\ now = <<base[v], base[v] + 16, base[v] + 32>>
        /\ cachedPtrs[v] # <<>> => cachedPtrs[v] = now
        /\ fetched[v] # <<>> => fetched[v] = cachedPtrs[v]
        /\ memGrows[v] = 0

\* the pointers were re-fetched after the second call and are the cached ones
C2_Witness ==
    /\ pc = "idle"
    /\ rounds >= 2
    /\ ret["no_growth"] > 3
    /\ fetched["no_growth"] # <<>>
    /\ fetched["no_growth"] = cachedPtrs["no_growth"]

\* C3 as stated: with "Hello" and "World" written, set_name(5, 5) returns 12 and
\* the 12 bytes at offset 32 are "Hello, World!".
C3_Original ==
    (pc = "called" /\ hostSal = Hello /\ hostName = World) =>
        \A v \in Variants : ret[v] = 12 /\ Message(v, 12) = HelloWorld

\* C3 amended: with "Hello" and "World" written, set_name(5, 5) returns 13 and the
\* 13 bytes at offset 32 are "Hello, World!".
C3_HelloWorld ==
    (pc = "called" /\ hostSal = Hello /\ hostName = World) =>
        \A v \in Variants : trap[v] = "none" /\ ret[v] = 13 /\ Message(v, 13) = HelloWorld

C3_Witness ==
    /\ pc = "called"
    /\ hostSal = Hello
    /\ hostName = World
    /\ args = <<5, 5>>
    /\ \A v \in Variants : ret[v] = 13

\* C4: a set_name call that follows a call with the same lengths, the host having
\* written the same salutation and name again in between, returns what the first
\* call returned and leaves the whole buffer as the first call left it.
C4_Idempotent ==
    [][ (/\ pc = "written"
         /\ pc' = "called"
         /\ prev.args = args'
         /\ prev.sal = hostSal
         /\ prev.name = hostName)
        => (\A v \in Variants : ret'[v] = prev.ret[v] /\ BUFFER'[v] = prev.buf[v]) ]_vars

\* a call was repeated with a full salutation and a full name
C4_Witness ==
    /\ pc = "called"
    /\ repeat
    /\ hostSal = Sal16
    /\ hostName = Name16
    /\ \A v \in Variants : ret[v] = 35

\* C7: in the in-place variant no call grows the memory and the host never reads
\* through a detached view. In the String variant a call that grew the memory
\* returned its length all the same, with no trap, and the host's view is detached
\* from then on: the fault shows when the host next reads.
C7_SilentGrowth ==
    /\ memGrows["no_growth"] = viewGen["no_growth"]
    /\ ~hostFault["no_growth"]
    /\ memGrows["growth"] # viewGen["growth"] =>
          /\ trap["growth"] = "none"
          /\ ret["growth"] = Len(hostSal) + Len(hostName) + 3
          /\ pc = "called" => ~hostFault["growth"]
          /\ pc = "idle" => hostFault["growth"]
    /\ hostFault["growth"] => memGrows["growth"] # viewGen["growth"]

\* the host faulted on the String variant's memory, after a call that returned
\* normally, and not on the in-place variant's
C7_Witness ==
    /\ hostFault["growth"]
    /\ ~hostFault["no_growth"]
    /\ cachedPtrs["growth"] # <<>>
    /\ trap["growth"] = "none"
    /\ ret["growth"] = ret["no_growth"]
    /\ ret["growth"] > 3

\* C8: driven by the same host writes and calls, with well-formed inputs of at most
\* 16 bytes, both variants return the same length at every call and hold the same
\* 128 bytes after every call.
C8_Equivalent ==
    /\ BUFFER["no_growth"] = BUFFER["growth"]
    /\ ret["no_growth"] = ret["growth"]
    /\ trap["no_growth"] = trap["growth"]

C8_Witness ==
    /\ pc = "called"
    /\ rounds >= 3
    /\ hostName = Name16
    /\ ret["no_growth"] = ret["growth"]
    /\ ret["growth"] = Len(hostSal) + 19
    /\ BUFFER["no_growth"] = BUFFER["growth"]
    /\ BUFFER["growth"][66] # 0

\* C9: for valid inputs the in-place set_name reads only indices in [0, 32), writes
\* exactly the indices [32, 32 + sal_len + name_len + 3), all below 68, and reads no
\* byte it has written in the same call.
C9_Accesses ==
    pc = "called" =>
        LET v == "no_growth"
            len == args[1] + args[2] + 3
        IN  /\ trap[v] = "none"
            /\ reads[v] \subseteq 0 .. 31
            /\ writes[v] = 32 .. (32 + len - 1)
            /\ writes[v] \subseteq 32 .. 67
            /\ writes[v] \subseteq Indices
            /\ reads[v] \cap writes[v] = {}
            /\ ~raw[v]

\* the longest greeting: 16 + 16 + 3 bytes, and every byte of both fields read
C9_Witness ==
    /\ pc = "called"
    /\ args = <<16, 16>>
    /\ reads["no_growth"] = 0 .. 31
    /\ Cardinality(writes["no_growth"]) = 35

\* C10: a call that returns L changes only the bytes at [32, 32 + L): both input
\* fields and every byte from 32 + L on keep their values, so a shorter greeting
\* leaves the tail of a longer one behind it.
C10_Frame ==
    [][ (pc = "written" /\ pc' = "called")
        => \A v \in Variants : \A i \in Indices :
              (i < 32 \/ i >= 32 + ret'[v]) => BUFFER'[v][i] = BUFFER[v][i] ]_vars

\* after "Hello, World!", two empty inputs gave ", !" and left "lo, World!" behind
C10_Witness ==
    /\ pc = "called"
    /\ \A v \in Variants :
          /\ ret[v] = 3
          /\ Message(v, 13) = <<44, 32, 33, 108, 111, 44, 32, 87, 111, 114, 108, 100, 33>>

\* C5 as stated: a call with salutation_len > 16, or name_len > 16, or
\* salutation_len + 2 + name_len + 1 > 96 never returns a length: it ends in a
\* fatal out-of-bounds access.
C5_Original ==
    (pc = "called" /\ (args[1] > 16 \/ args[2] > 16 \/ args[1] + 2 + args[2] + 1 > 96)) =>
        \A v \in Variants : trap[v] = "bounds" /\ ret[v] = 0

\* C5 amended: a call with a negative length or with
\* salutation_len + 2 + name_len + 1 > 96 never returns a length: it ends in a panic
\* (the bounds check of the in-place variant; the bounds check or the decode failure
\* of the String variant), and no byte outside the buffer is touched. A call with
\* lengths from 0 whose sum with 3 is at most 96 returns that sum in the in-place
\* variant, also when salutation_len > 16 or name_len > 16.
C5_BoundsPanic ==
    pc = "called" =>
        LET sal_len == args[1]
            name_len == args[2]
            fits == sal_len >= 0 /\ name_len >= 0 /\ sal_len + 2 + name_len + 1 <= 96
        IN  /\ ~fits => /\ \A v \in Variants : trap[v] # "none" /\ ret[v] = 0
                        /\ trap["no_growth"] = "bounds"
            /\ fits => /\ trap["no_growth"] = "none"
                       /\ ret["no_growth"] = sal_len + name_len + 3
            /\ \A v \in Variants : reads[v] \subseteq 0 .. 127 /\ writes[v] \subseteq 0 .. 127

\* set_name(17, 80) panicked in both variants after storing part of the greeting
C5_Witness ==
    /\ pc = "called"
    /\ args = <<17, 80>>
    /\ \A v \in Variants : trap[v] = "bounds" /\ ret[v] = 0 /\ writes[v] # {}

\* the bytes [0, sal_len) or [16, 16 + name_len) of variant v's buffer, both inside
\* the buffer, are not well-formed UTF-8
Malformed(v, a) ==
    /\ a[1] >= 0 /\ a[1] <= 128
    /\ a[2] >= 0 /\ a[2] <= 112
    /\ \/ ~from_utf8_ok(Slice(BUFFER[v], 0, a[1]))
       \/ ~from_utf8_ok(Slice(BUFFER[v], 16, a[2]))

\* C6 as stated: in every variant a call whose salutation or name bytes are not
\* valid UTF-8 fails with a decode failure, returns no length and writes nothing.
C6_Original ==
    [][ (pc = "written" /\ pc' = "called")
        => \A v \in Variants :
              Malformed(v, args') =>
                  trap'[v] = "utf8" /\ ret'[v] = 0 /\ BUFFER'[v] = BUFFER[v] ]_vars

\* C6 amended: in the String variant a call whose salutation or name bytes are not
\* valid UTF-8 fails with a decode failure, returns no length and writes nothing.
\* The in-place variant never decodes: when the lengths fit it returns
\* sal_len + name_len + 3, having copied the salutation bytes as they are (a
\* salutation of more than 32 bytes runs into the bytes being written).
C6_DecodeFailure ==
    [][ (pc = "written" /\ pc' = "called")
        => /\ Malformed("growth", args') =>
                 /\ trap'["growth"] = "utf8"
                 /\ ret'["growth"] = 0
                 /\ BUFFER'["growth"] = BUFFER["growth"]
           /\ trap'["no_growth"] # "utf8"
           /\ (Malformed("no_growth", args') /\ args'[1] + args'[2] + 3 <= 96) =>
                 /\ trap'["no_growth"] = "none"
                 /\ ret'["no_growth"] = args'[1] + args'[2] + 3
                 /\ args'[1] <= 32 =>
                        Slice(BUFFER'["no_growth"], 32, args'[1])
                           = Slice(BUFFER["no_growth"], 0, args'[1]) ]_vars

\* a salutation cut inside a two-byte character: the String variant failed to
\* decode it, the in-place variant copied it and returned
C6_Witness ==
    /\ pc = "called"
    /\ hostSal = <<72, 195>>
    /\ args[1] = 2
    /\ trap["growth"] = "utf8"
    /\ ret["growth"] = 0
    /\ trap["no_growth"] = "none"
    /\ ret["no_growth"] = 2 + args[2] + 3
    /\ BUFFER["no_growth"][33] = 195

\* probe: a salutation length past both input fields makes the variants differ
OverlapDiffers ==
    /\ pc = "called"
    /\ args[1] = 40
    /\ \A v \in Variants : trap[v] = "none"
    /\ BUFFER["no_growth"] # BUFFER["growth"]

=============================================================================
